---- MODULE Spec2Model ----
(***************************************************************************)
(* Model of code/train_mrc.py: the logit reassembler                       *)
(* (create_and_fill_np_array), the masking augmenter (custom_to_mask), one *)
(* optimisation step (training_per_step) and the train / validate /        *)
(* checkpoint loop (train_mrc).                                            *)
(***************************************************************************)
EXTENDS Integers, Sequences, FiniteSets, TLC

VARIABLES
    \* ---- create_and_fill_np_array / validating_per_steps ----
    fpc,            \* "idle" | "loop" | "returned" | "raised"
    dataset_len,    \* len(dataset)
    max_len,        \* the max_len argument
    start_or_end_logits, \* the argument: a sequence of batches of logits
    i,              \* number of batches the for loop has finished
    step,           \* the cursor `step`
    logits_concat,  \* the output array: a sequence of rows, each a sequence of columns
    writes,         \* per finished iteration: the cursor it started at and the rows it wrote
    \* ---- training_per_step / custom_to_mask ----
    tpc,            \* "call" | "returned" | "raised" | "idle"
    batch,          \* the batch handed to training_per_step (mutated in place)
    batch0,         \* the same batch as the loader built it
    model,          \* [training: model.training, weights: optimizer steps applied]
    ops,            \* what the last call did to the model, in order
    loss_out,       \* the value training_per_step returned
    mask_hit,       \* whether the call drew mask_p < mask_props
    \* ---- train_mrc ----
    pc,             \* "train" | "log" | "epoch_end" | "done" | "raised" | "val_raised" | "idle"
    args,           \* num_train_epochs, logging_steps, dataset_name, len(train_loader),
                    \* tokenizer_name, do_predict, fp16, scheduler
    epoch,          \* the outer loop's epoch
    batch_idx,      \* batches of this epoch already handled (the inner loop's step)
    global_steps,
    prev_f1,
    prev_em,
    train_loss,     \* the AverageMeter: [sum, count]
    sched_steps,    \* calls of scheduler.step()
    disk,           \* output_dir: what each checkpoint path holds
    wandb,          \* the mapping of the last wandb.log call
    hist            \* counts of what the loop has done, and its last iteration

fillVars == <<fpc, dataset_len, max_len, start_or_end_logits, i, step, logits_concat, writes>>

stepVars == <<tpc, batch, batch0, model, ops, loss_out, mask_hit>>

loopVars == <<pc, args, epoch, batch_idx, global_steps, prev_f1, prev_em, train_loss,
              sched_steps, disk, wandb, hist>>

vars == <<fillVars, stepVars, loopVars>>

\* ------------------------------------------------------------------ bounds
MaxN == 5          \* example counts 0..MaxN
MaxBatches == 3    \* batches per call of the reassembler (arbitrary input)
MaxRows == 3       \* rows of one batch, 1..MaxRows
MaxCols == 2       \* columns of one batch, 1..MaxCols; max_len in 1..MaxCols
MaxTotalRows == 6  \* rows of all batches of one call together
MaxEvalN == 5      \* validation set sizes 1..MaxEvalN (loader-built input)
MaxEvalBatch == 2  \* per_device_eval_batch_size in 1..MaxEvalBatch
MaxQuestion == 3   \* question lengths 0..MaxQuestion tokens
MaxExamples == 2   \* examples of one training batch, 1..MaxExamples
MaxEpochs == 2     \* num_train_epochs in 1..MaxEpochs
MaxTrainBatches == 2  \* len(train_loader) in 1..MaxTrainBatches
MaxSteps == 2      \* training steps of one run: epochs * batches <= MaxSteps
MaxLoggingSteps == 2  \* logging_steps in 1..MaxLoggingSteps
MaxScore == 2      \* F1 and Exact-Match values 0..MaxScore
ValBatches == 2    \* batches of the validation loader

\* ------------------------------------------------------------------ helpers
Min(a, b) == IF a < b THEN a ELSE b
Max(a, b) == IF a > b THEN a ELSE b

RECURSIVE SumSizes(_)
SumSizes(bs) == IF bs = <<>> THEN 0 ELSE Len(Head(bs)) + SumSizes(Tail(bs))

\* The fill value of np.full(..., -100)
PadValue == -100

\* ---------------------------------------------------- numpy slice semantics
\* A slice bound as Python normalises it against a length: negative bounds
\* count from the end, everything is clipped into [0, len].
SliceBound(b, len) == IF b < 0 THEN Max(len + b, 0) ELSE Min(b, len)

\* Row indices (0-based) selected by a[lo:hi] on an axis of length len.
SliceIdx(lo, hi, len) ==
    { r \in 0 .. (len - 1) : SliceBound(lo, len) <= r /\ r < SliceBound(hi, len) }

\* value (vr x vc) can be assigned to a target (tr x tc) iff it broadcasts to it.
Broadcasts(vr, vc, tr, tc) == (vr = tr \/ vr = 1) /\ (vc = tc \/ vc = 1)

\* ------------------------------------------------ create_and_fill_np_array
\* variant of NpFull: the array filled with 0 (np.zeros)
NpFullZero(n, m) == [r \in 1 .. n |-> [c \in 1 .. m |-> 0]]

\* np.full((len(dataset), max_len), -100)
NpFull(n, m) == [r \in 1 .. n |-> [c \in 1 .. m |-> PadValue]]

\* variant of FillOne: no else branch, the last batch is written unclipped
FillOneOff(st, output_logit, n, m) ==
    LET batch_size == Len(output_logit)
        cols == Len(output_logit[1])
        rows == SliceIdx(st.step, st.step + batch_size, n)
        tc == Min(cols, m)
    IN  [ ok |-> TRUE,
          step |-> st.step + batch_size,
          rows |-> { st.step + j : j \in 0 .. (batch_size - 1) },
          logits_concat |->
              [ r \in 1 .. Max(n, st.step + batch_size) |->
                  IF r - 1 \in { st.step + j : j \in 0 .. (batch_size - 1) }
                  THEN [ c \in 1 .. m |-> IF c <= tc THEN output_logit[r - st.step][c]
                                          ELSE PadValue ]
                  ELSE IF r <= Len(st.logits_concat) THEN st.logits_concat[r]
                  ELSE [ c \in 1 .. m |-> PadValue ] ] ]

\* variant of FillOne: the cursor is not advanced
FillOneNoStep(st, output_logit, n, m) ==
    LET batch_size == Len(output_logit)
        cols == Len(output_logit[1])
        rows == SliceIdx(st.step, st.step + batch_size, n)
        tc == Min(cols, m)
    IN  [ ok |-> TRUE,
          step |-> st.step,
          rows |-> rows,
          logits_concat |->
              [ r \in 1 .. n |->
                  IF r - 1 \in rows
                  THEN [ c \in 1 .. m |-> IF c <= tc THEN output_logit[r - st.step][c]
                                          ELSE st.logits_concat[r][c] ]
                  ELSE st.logits_concat[r] ] ]

\* One iteration of the for loop on the state st = [step, logits_concat] for
\* the batch output_logit, for len(dataset) = n and max_len = m.  Returns the
\* new state, the rows written and whether the slice assignment raised
\* (ValueError: could not broadcast input array).
FillOne(st, output_logit, n, m) ==
    LET batch_size == Len(output_logit)            \* output_logit.shape[0]
        cols == Len(output_logit[1])               \* output_logit.shape[1]
        first == st.step + batch_size < n          \* the if of line 173
        \* target rows: [step : step+batch_size] or [step:]
        rows == IF first THEN SliceIdx(st.step, st.step + batch_size, n)
                ELSE SliceIdx(st.step, n, n)
        tc == Min(cols, m)                         \* [:, :cols] on max_len columns
        \* value rows: output_logit or output_logit[: len(dataset) - step]
        vrows == IF first THEN batch_size
                 ELSE Cardinality(SliceIdx(0, n - st.step, batch_size))
        ok == Broadcasts(vrows, cols, Cardinality(rows), tc)
    IN  IF ~ok
        THEN [ ok |-> FALSE, step |-> st.step, rows |-> {},
               logits_concat |-> st.logits_concat ]
        ELSE [ ok |-> TRUE,
               step |-> st.step + batch_size,
               rows |-> rows,
               logits_concat |->
                   [ r \in 1 .. n |->
                       IF r - 1 \in rows
                       THEN [ c \in 1 .. m |->
                                IF c <= tc
                                THEN output_logit[IF vrows = 1 THEN 1 ELSE r - st.step]
                                                 [IF cols = 1 THEN 1 ELSE c]
                                ELSE st.logits_concat[r][c] ]
                       ELSE st.logits_concat[r] ] ]

\* The logits a model returns for batch k: every cell is distinct, so a copy
\* to a wrong place is visible.
Logit(k, j, c) == 100 * k + 10 * j + c
MakeBatch(k, shape) ==
    [ j \in 1 .. shape[1] |-> [ c \in 1 .. shape[2] |-> Logit(k, j, c) ] ]

Shapes == (1 .. MaxRows) \X (1 .. MaxCols)
RECURSIVE TotalRows(_)
TotalRows(s) == IF s = <<>> THEN 0 ELSE Head(s)[1] + TotalRows(Tail(s))
ShapeSeqs == { s \in UNION { [1 .. k -> Shapes] : k \in 0 .. MaxBatches } :
                 TotalRows(s) <= MaxTotalRows }

\* ------------------------------------------------------------ the batches
\* One tokenised example of length len with a question of q tokens:
\* [CLS] question [SEP] context [SEP] padding; q = -1 stands for an example
\* with no [CLS] either, the separator at index 0.  Positions are 1-based here
\* and 0-based in the code.
MakeExample(q, len) ==
    [ p \in 1 .. len |->
        IF p <= q + 1 THEN (IF p = 1 THEN "CLS" ELSE "w")
        ELSE IF p = q + 2 THEN "SEP"
        ELSE IF p = q + 3 THEN "w"
        ELSE IF p = q + 4 THEN "SEP"
        ELSE "PAD" ]

SeqMax(qs) == CHOOSE m \in { qs[k] : k \in 1 .. Len(qs) } :
                 \A k \in 1 .. Len(qs) : qs[k] <= m

\* pad_to_multiple_of = 8 if training_args.fp16 else None
PadMultiple == 8

\* The width DataCollatorWithPadding pads a batch to: the longest example,
\* rounded up to the next multiple of PadMultiple under fp16.
PaddedWidth(longest, fp16) ==
    IF fp16
    THEN ((longest + PadMultiple - 1) \div PadMultiple) * PadMultiple
    ELSE longest

\* The batch the collator builds from examples with questions of qs tokens.
MakeTokBatch(qs, fp16) ==
    LET width == PaddedWidth(SeqMax(qs) + 4, fp16)
    IN  [ input_ids |-> [ k \in 1 .. Len(qs) |-> MakeExample(qs[k], width) ],
          attention_mask |->
              [ k \in 1 .. Len(qs) |->
                  [ p \in 1 .. width |-> IF p <= qs[k] + 4 THEN 1 ELSE 0 ] ] ]

QuestionLens == UNION { [1 .. n -> (-1) .. MaxQuestion] : n \in 1 .. MaxExamples }
TokBatches == { MakeTokBatch(qs, fp16) : qs \in QuestionLens, fp16 \in BOOLEAN }

\* ----------------------------------------------------------- custom_to_mask
SepTokenId == "SEP"      \* tokenizer.sep_token_id
MaskTokenId == "MASK"    \* tokenizer.mask_token_id

\* np.where(input_ids[i] == sep_token_id)[0]: the 0-based positions of SEP
SepIdx(ex) == { p \in 0 .. (Len(ex) - 1) : ex[p + 1] = SepTokenId }

SetMin(S) == CHOOSE x \in S : \A y \in S : x <= y

\* variant of RandRange: the upper end included (random.randint)
RandRangeClosed(a, b) == a .. b

\* the values random.randrange(a, b) can return; empty when it raises
RandRange(a, b) == a .. (b - 1)

\* The positions the loop can draw for example ex (0 stands for no draw).
DrawsFor(ex) ==
    IF SepIdx(ex) = {} \/ RandRange(1, SetMin(SepIdx(ex))) = {} THEN {0}
    ELSE RandRange(1, SetMin(SepIdx(ex)))

Draws(b) ==
    LET all == UNION { DrawsFor(b.input_ids[k]) : k \in 1 .. Len(b.input_ids) }
    IN  { pos \in [ 1 .. Len(b.input_ids) -> all ] :
            \A k \in 1 .. Len(b.input_ids) : pos[k] \in DrawsFor(b.input_ids[k]) }

\* The for loop from example k on; pos[k] is the position randrange returns
\* for example k.  raised: sep_idx[0][0] found no separator (IndexError) or
\* randrange had an empty range (ValueError); `at` is the example it raised at.
RECURSIVE MaskFrom(_, _, _)
MaskFrom(ids, k, pos) ==
    IF k > Len(ids) THEN [ raised |-> FALSE, input_ids |-> ids, at |-> 0 ]
    ELSE IF SepIdx(ids[k]) = {} THEN [ raised |-> TRUE, input_ids |-> ids, at |-> k ]
    ELSE LET q_ids == SetMin(SepIdx(ids[k]))
         IN  IF RandRange(1, q_ids) = {}
             THEN [ raised |-> TRUE, input_ids |-> ids, at |-> k ]
             ELSE MaskFrom([ ids EXCEPT ![k][pos[k] + 1] = MaskTokenId ], k + 1, pos)

\* variant of MaskFrom: a guard skips an example whose question has no
\* interior token
RECURSIVE MaskFromSkipping(_, _, _)
MaskFromSkipping(ids, k, pos) ==
    IF k > Len(ids) THEN [ raised |-> FALSE, input_ids |-> ids, at |-> 0 ]
    ELSE IF SepIdx(ids[k]) = {} \/ RandRange(1, SetMin(SepIdx(ids[k]))) = {}
    THEN MaskFromSkipping(ids, k + 1, pos)
    ELSE MaskFromSkipping([ ids EXCEPT ![k][pos[k] + 1] = MaskTokenId ], k + 1, pos)

\* variant of CustomToMask: built on the guarded loop
CustomToMaskSkipping(b, pos) ==
    LET r == MaskFromSkipping(b.input_ids, 1, pos)
    IN  [ raised |-> r.raised, at |-> r.at,
          batch |-> [ b EXCEPT !.input_ids = r.input_ids ] ]

\* custom_to_mask(batch, tokenizer): input_ids masked in place, the other
\* fields untouched
CustomToMask(b, pos) ==
    LET r == MaskFrom(b.input_ids, 1, pos)
    IN  [ raised |-> r.raised, at |-> r.at,
          batch |-> [ b EXCEPT !.input_ids = r.input_ids ] ]

\* -------------------------------------------------------- training_per_step
\* one entry of the record of calls made on the model, with model.training
\* at the time of the call
Op(name, m) == [ op |-> name, training |-> m.training ]

\* variant of TrainingPerStep: without its first line, model.train()
TrainingPerStepNoTrain(m, b, hit, pos, loss) ==
    LET masked == IF hit THEN CustomToMask(b, pos)
                  ELSE [ raised |-> FALSE, at |-> 0, batch |-> b ]
    IN  IF masked.raised
        THEN [ raised |-> TRUE, model |-> m, batch |-> masked.batch,
               ops |-> <<>>, loss |-> 0 ]
        ELSE [ raised |-> FALSE,
               model |-> [ m EXCEPT !.weights = m.weights + 1 ],
               batch |-> masked.batch,
               ops |-> << Op("forward", m), Op("backward", m),
                          Op("optimizer_step", m), Op("scaler_update", m),
                          Op("zero_grad", m) >>,
               loss |-> loss ]

\* m: the model; b: the batch; hit: mask_p < mask_props; pos: the positions
\* custom_to_mask draws; loss: the loss the forward pass computes.
TrainingPerStep(m, b, hit, pos, loss) ==
    LET m1 == [ m EXCEPT !.training = TRUE ]                     \* model.train()
        masked == IF hit THEN CustomToMask(b, pos)
                  ELSE [ raised |-> FALSE, at |-> 0, batch |-> b ]
    IN  IF masked.raised
        THEN [ raised |-> TRUE, model |-> m1, batch |-> masked.batch,
               ops |-> << Op("train", m1) >>, loss |-> 0 ]
        ELSE [ raised |-> FALSE,
               model |-> [ m1 EXCEPT !.weights = m1.weights + 1 ],
               batch |-> masked.batch,
               ops |-> << Op("train", m1), Op("forward", m1), Op("backward", m1),
                          Op("optimizer_step", m1), Op("scaler_update", m1),
                          Op("zero_grad", m1) >>,
               loss |-> loss ]

NoBatch == [ input_ids |-> <<>>, attention_mask |-> <<>> ]

StepIdle ==
    /\ tpc = "idle"
    /\ batch = NoBatch
    /\ batch0 = NoBatch
    /\ model = [ training |-> FALSE, weights |-> 0 ]
    /\ ops = <<>>
    /\ loss_out = 0
    /\ mask_hit = FALSE

FillIdle ==
    /\ fpc = "idle"
    /\ dataset_len = 0
    /\ max_len = 0
    /\ start_or_end_logits = <<>>
    /\ i = 0
    /\ step = 0
    /\ logits_concat = <<>>
    /\ writes = <<>>

\* ---------------------------------------------------------------- train_mrc
\* AverageMeter of utils_qa: update(val, n) and reset(); avg = sum / count
MeterUpdate(meter, val, n) ==
    [ sum |-> meter.sum + val * n, count |-> meter.count + n ]
\* AverageMeter() and reset()
MeterReset == [ sum |-> 0, count |-> 0 ]

\* Python's None as the value of an optional argument
None == "None"

\* validating_per_steps on the model.  `"xlm" in model_args.tokenizer_name`
\* raises TypeError on None, before model.eval().  Otherwise model.eval() and
\* one forward pass per batch of the validation loader; then, under
\* do_predict, post_processing_function returns a list and
\* `prediction.predictions` raises AttributeError.
ValidatingPerSteps(m, tokenizer_name, do_predict) ==
    LET m1 == [ m EXCEPT !.training = FALSE ]                    \* model.eval()
        passes == << Op("eval", m1) >> \o [ k \in 1 .. ValBatches |-> Op("forward", m1) ]
    IN  IF tokenizer_name = None
        THEN [ raised |-> TRUE, model |-> m, ops |-> <<>> ]
        ELSE [ raised |-> do_predict, model |-> m1, ops |-> passes ]

\* what metric.compute can return
ValMetrics == [ f1 : 0 .. MaxScore, exact_match : 0 .. MaxScore ]

\* scheduler.get_last_lr()[0] if scheduler is not None else
\* training_args.learning_rate
LoggedLr(scheduler, steps) ==
    IF scheduler # None
    THEN [ from |-> "scheduler", steps |-> steps ]
    ELSE [ from |-> "training_args", steps |-> 0 ]

\* global_steps % logging_steps == 0
IsLoggingStep(gs, ls) == gs % ls = 0

\* variant of Improved: an equal F1 counts
ImprovedOrEqual(f1, best) == f1 >= best

\* variant of Improved: every validation overwrites the best
ImprovedAlways(f1, best) == TRUE

\* val_metric["f1"] > prev_f1
Improved(f1, best) == f1 > best

\* prev_em = val_metric["exact_match"]
NextEm(vm, em) == vm.exact_match

\* the checkpoint files of output_dir
Paths == { "koquard_pretrained_model.pt", "run_name.pt" }

\* variant of CheckpointPath: the run's name whatever the dataset
CheckpointPathFixed(name) == "run_name.pt"

\* the file torch.save writes to
CheckpointPath(name) ==
    IF name = "only_korquad" THEN "koquard_pretrained_model.pt" ELSE "run_name.pt"

\* what torch.save(model, path) leaves at the path
Saved(m) == [ by |-> "run", weights |-> m.weights ]

\* a path with no file, and a path with the file of an earlier run
Absent == [ by |-> "nobody", weights |-> 0 ]
Earlier == [ by |-> "earlier run", weights |-> 0 ]

\* the batches the training loader yields: two well-formed examples, or two
\* examples the second of which has an empty question
LoaderBatches(fp16) == { MakeTokBatch(<<1, 2>>, fp16), MakeTokBatch(<<1, 0>>, fp16) }

\* the loss values a forward pass returns
Losses == { 1, 2 }

\* what one pass of the loop body did
NoEvents == [ validated |-> FALSE, saved |-> FALSE, f1_written |-> FALSE,
              em_written |-> FALSE, reset |-> FALSE ]

NoHistory == [ trained |-> 0, logged |-> 0, validated |-> 0, resets |-> 0,
               best_weights |-> 0, last |-> NoEvents ]

LoopIdle ==
    /\ pc = "idle"
    /\ args = [ num_train_epochs |-> 0, logging_steps |-> 1, dataset_name |-> "basic",
                n_batches |-> 0, tokenizer_name |-> None, do_predict |-> FALSE,
                fp16 |-> FALSE, scheduler |-> None ]
    /\ epoch = 0
    /\ batch_idx = 0
    /\ global_steps = 0
    /\ prev_f1 = 0
    /\ prev_em = 0
    /\ train_loss = MeterReset
    /\ sched_steps = 0
    /\ disk = [ p \in Paths |-> Absent ]
    /\ wandb = <<>>
    /\ hist = NoHistory

\* main() up to the call of train_mrc, and the first lines of train_mrc.  The
\* output directory is created when missing, so a file of an earlier run can
\* be at a checkpoint path; the model is in either mode.
LoopInit ==
    /\ pc = "train"
    /\ args \in [ num_train_epochs : 1 .. MaxEpochs,
                  logging_steps : 1 .. MaxLoggingSteps,
                  dataset_name : { "only_korquad", "basic" },
                  n_batches : 1 .. MaxTrainBatches,
                  tokenizer_name : { None, "xlm-roberta-large" },
                  do_predict : BOOLEAN,
                  fp16 : BOOLEAN,
                  scheduler : { None, "CosineAnnealingLR" } ]
    /\ args.num_train_epochs * args.n_batches <= MaxSteps
    /\ epoch = 0
    /\ batch_idx = 0
    /\ global_steps = 0
    /\ prev_f1 = 0
    /\ prev_em = 0
    /\ train_loss = MeterReset
    /\ sched_steps = 0
    /\ disk \in { [ p \in Paths |-> Absent ], [ p \in Paths |-> Earlier ] }
    /\ wandb = <<>>
    /\ hist = NoHistory
    /\ tpc = "idle"
    /\ batch = NoBatch
    /\ batch0 = NoBatch
    /\ model \in [ training : BOOLEAN, weights : {0} ]
    /\ ops = <<>>
    /\ loss_out = 0
    /\ mask_hit = FALSE
    /\ FillIdle

\* where the inner loop goes after the body: the next batch or the epoch's end
AfterBody == IF batch_idx + 1 < args.n_batches THEN "train" ELSE "epoch_end"

\* lines 301-305: the training step on the next batch, the loss meter, the counter
TrainStep ==
    /\ pc = "train"
    /\ \E b \in LoaderBatches(args.fp16), hit \in BOOLEAN, loss \in Losses :
         \E pos \in Draws(b) :
          LET res == TrainingPerStep(model, b, hit, pos, loss)
          IN  /\ model' = res.model
              /\ ops' = res.ops
              /\ mask_hit' = hit
              /\ loss_out' = res.loss
              /\ IF res.raised
                 THEN /\ pc' = "raised"
                      /\ UNCHANGED <<train_loss, global_steps, hist>>
                 ELSE /\ pc' = "log"
                      /\ train_loss' = MeterUpdate(train_loss, res.loss, Len(b.input_ids))
                      /\ global_steps' = global_steps + 1
                      /\ hist' = [ hist EXCEPT !.trained = @ + 1 ]
    /\ UNCHANGED <<args, epoch, batch_idx, prev_f1, prev_em, sched_steps, disk, wandb,
                   tpc, batch, batch0, fillVars>>

\* lines 308-328: the validation pass, the checkpoint decision, the full log
ValidateAndLog ==
    /\ pc = "log"
    /\ IsLoggingStep(global_steps, args.logging_steps)
    /\ \E vm \in ValMetrics :
          LET v == ValidatingPerSteps(model, args.tokenizer_name, args.do_predict)
              better == Improved(vm.f1, prev_f1)
          IN  /\ model' = v.model
              /\ ops' = v.ops
              /\ IF v.raised
                 THEN /\ pc' = "val_raised"
                      /\ UNCHANGED <<disk, prev_f1, prev_em, wandb, train_loss, hist,
                                     batch_idx>>
                 ELSE /\ disk' = IF better
                                 THEN [ disk EXCEPT ![CheckpointPath(args.dataset_name)] =
                                                       Saved(v.model) ]
                                 ELSE disk
                      /\ prev_f1' = IF better THEN vm.f1 ELSE prev_f1
                      /\ prev_em' = IF better THEN NextEm(vm, prev_em) ELSE prev_em
                      /\ wandb' = [ loss |-> train_loss,
                                    learning_rate |-> LoggedLr(args.scheduler, sched_steps),
                                    exact_match |-> vm.exact_match, f1_score |-> vm.f1,
                                    global_steps |-> global_steps ]
                      /\ train_loss' = MeterReset
                      /\ hist' = [ hist EXCEPT
                                     !.logged = @ + 1, !.validated = @ + 1, !.resets = @ + 1,
                                     !.best_weights = IF better THEN v.model.weights ELSE @,
                                     !.last = [ validated |-> TRUE, saved |-> better,
                                                f1_written |-> better, em_written |-> better,
                                                reset |-> TRUE ] ]
                      /\ batch_idx' = batch_idx + 1
                      /\ pc' = AfterBody
    /\ UNCHANGED <<args, epoch, global_steps, sched_steps, tpc, batch, batch0, loss_out,
                   mask_hit, fillVars>>

\* lines 329-330: between logging intervals only the counter is logged
LogStepOnly ==
    /\ pc = "log"
    /\ ~IsLoggingStep(global_steps, args.logging_steps)
    /\ wandb' = [ global_steps |-> global_steps ]
    /\ hist' = [ hist EXCEPT !.logged = @ + 1, !.last = NoEvents ]
    /\ batch_idx' = batch_idx + 1
    /\ pc' = AfterBody
    /\ UNCHANGED <<args, epoch, global_steps, prev_f1, prev_em, train_loss, sched_steps,
                   disk, stepVars, fillVars>>

\* lines 332-333 and the outer for: scheduler.step(), the next epoch or the end
EpochEnd ==
    /\ pc = "epoch_end"
    /\ sched_steps' = IF args.scheduler # None THEN sched_steps + 1 ELSE sched_steps
    /\ epoch' = epoch + 1
    /\ batch_idx' = 0
    /\ pc' = IF epoch + 1 < args.num_train_epochs THEN "train" ELSE "done"
    /\ UNCHANGED <<args, global_steps, prev_f1, prev_em, train_loss, disk, wandb,
                   hist, stepVars, fillVars>>

Next == TrainStep \/ ValidateAndLog \/ LogStepOnly \/ EpochEnd

Spec == LoopInit /\ [][Next]_vars

\* ------------------------------------------- calls of training_per_step
\* One call of training_per_step on any batch, the model in either mode.
StepInit ==
    /\ tpc = "call"
    /\ batch \in TokBatches
    /\ batch0 = batch
    /\ model \in [ training : BOOLEAN, weights : {0} ]
    /\ ops = <<>>
    /\ loss_out = 0
    /\ mask_hit = FALSE
    /\ FillIdle
    /\ LoopIdle

StepCall ==
    /\ tpc = "call"
    /\ \E hit \in BOOLEAN, pos \in Draws(batch), loss \in Losses :
          LET res == TrainingPerStep(model, batch, hit, pos, loss)
          IN  /\ tpc' = IF res.raised THEN "raised" ELSE "returned"
              /\ batch' = res.batch
              /\ model' = res.model
              /\ ops' = res.ops
              /\ loss_out' = res.loss
              /\ mask_hit' = hit
    /\ UNCHANGED <<batch0, fillVars, loopVars>>

SpecStep == StepInit /\ [][StepCall]_vars

\* --------------------------------------------- calls of the reassembler
\* A call with arbitrary arguments.
FillInit ==
    /\ fpc = "loop"
    /\ dataset_len \in 0 .. MaxN
    /\ max_len \in 1 .. MaxCols
    /\ \E s \in ShapeSeqs :
          start_or_end_logits = [ k \in 1 .. Len(s) |-> MakeBatch(k, s[k]) ]
    /\ i = 0
    /\ step = 0
    /\ logits_concat = NpFull(dataset_len, max_len)
    /\ writes = <<>>
    /\ StepIdle
    /\ LoopIdle

\* The batches DataLoader(val_dataset, batch_size = b) yields for n examples:
\* full batches of b rows and a last, smaller one when b does not divide n.
LoaderSizes(n, b) ==
    [ k \in 1 .. ((n + b - 1) \div b) |-> Min(b, n - (k - 1) * b) ]

\* max(x.shape[1] for x in all_start_logits)
MaxShape1(batches) ==
    CHOOSE m \in { Len(batches[k][1]) : k \in 1 .. Len(batches) } :
        \A k \in 1 .. Len(batches) : Len(batches[k][1]) <= m

\* The call validating_per_steps makes: one batch of logits per batch of the
\* validation loader, each padded by the collator to its own width, max_len
\* the widest.
ValidateInit ==
    /\ fpc = "loop"
    /\ dataset_len \in 1 .. MaxEvalN
    /\ \E b \in 1 .. MaxEvalBatch, fp16 \in BOOLEAN :
          \E cs \in [ 1 .. Len(LoaderSizes(dataset_len, b)) -> 1 .. MaxCols ] :
             start_or_end_logits =
                 [ k \in 1 .. Len(LoaderSizes(dataset_len, b)) |->
                     MakeBatch(k, <<LoaderSizes(dataset_len, b)[k],
                                    PaddedWidth(cs[k], fp16)>>) ]
    /\ max_len = MaxShape1(start_or_end_logits)
    /\ i = 0
    /\ step = 0
    /\ logits_concat = NpFull(dataset_len, max_len)
    /\ writes = <<>>
    /\ StepIdle
    /\ LoopIdle

\* One pass of `for i, output_logit in enumerate(start_or_end_logits)`.
FillBatch ==
    /\ fpc = "loop"
    /\ i < Len(start_or_end_logits)
    /\ LET output_logit == start_or_end_logits[i + 1]
           res == FillOne([step |-> step, logits_concat |-> logits_concat],
                          output_logit, dataset_len, max_len)
       IN  /\ fpc' = IF res.ok THEN "loop" ELSE "raised"
           /\ step' = res.step
           /\ logits_concat' = res.logits_concat
           /\ writes' = IF res.ok
                        THEN Append(writes, [cursor |-> step, rows |-> res.rows,
                                             size |-> Len(output_logit)])
                        ELSE writes
           /\ i' = IF res.ok THEN i + 1 ELSE i
    /\ UNCHANGED <<dataset_len, max_len, start_or_end_logits, stepVars, loopVars>>

\* `return logits_concat`
FillReturn ==
    /\ fpc = "loop"
    /\ i = Len(start_or_end_logits)
    /\ fpc' = "returned"
    /\ UNCHANGED <<dataset_len, max_len, start_or_end_logits, i, step,
                   logits_concat, writes, stepVars, loopVars>>

FillNext == FillBatch \/ FillReturn

SpecFill == FillInit /\ [][FillNext]_vars

SpecValidate == ValidateInit /\ [][FillNext]_vars

\* ------------------------------------------------------------ claims C3-C5
ColsOf(k) == Len(start_or_end_logits[k][1])
SizeOf(k) == Len(start_or_end_logits[k])
ColsFit == \A k \in 1 .. Len(start_or_end_logits) : ColsOf(k) <= max_len
\* rows of the batches before batch k
RECURSIVE Offset(_)
Offset(k) == IF k <= 1 THEN 0 ELSE Offset(k - 1) + SizeOf(k - 1)

\* C3 as stated: for every sequence of batches (column counts within max_len)
\* the call returns, the array has exactly N rows and no row >= N is written.
C3_AlwaysReturnsNRows ==
    /\ ColsFit => fpc # "raised"
    /\ fpc = "returned" => Len(logits_concat) = dataset_len
    /\ \A k \in 1 .. Len(writes) : \A r \in writes[k].rows : r < dataset_len

\* The shape error of the batch at index k when the cursor is at c: its
\* columns exceed max_len, or it starts past row N and keeps two rows or more
\* after its last c - N rows are dropped.
ShapeError(k, c) ==
    \/ ColsOf(k) > max_len
    \/ c > dataset_len /\ SizeOf(k) - (c - dataset_len) >= 2

\* C3 (amended): no batch writes a row >= N, the batch that reaches N is
\* clipped to N, the array has N rows of max_len columns at every moment and
\* on return; the call raises instead of returning exactly when a batch has
\* more columns than max_len or starts past row N with two or more rows left
\* after clipping, so it returns whenever the rows total at most N.
C3_RowsClippedOrRaise ==
    /\ \A k \in 1 .. Len(writes) :
          /\ writes[k].rows =
                { r \in 0 .. (dataset_len - 1) :
                    writes[k].cursor <= r /\ r < writes[k].cursor + writes[k].size }
          /\ ~ShapeError(k, writes[k].cursor)
    /\ Len(logits_concat) = dataset_len
    /\ \A r \in 1 .. dataset_len : Len(logits_concat[r]) = max_len
    /\ fpc = "raised" => ShapeError(i + 1, step)
    /\ (ColsFit /\ SumSizes(start_or_end_logits) <= dataset_len) => fpc # "raised"

\* C3 witness: a returned call whose batches hold more rows than N, the
\* crossing batch clipped.
C3_Witness ==
    /\ fpc = "returned"
    /\ SumSizes(start_or_end_logits) > dataset_len
    /\ \E k \in 1 .. Len(writes) :
          /\ writes[k].cursor < dataset_len
          /\ writes[k].cursor + writes[k].size > dataset_len
          /\ writes[k].rows # {}

\* the batches hold exactly len(dataset) rows
SizesSumToN == SumSizes(start_or_end_logits) = dataset_len

\* C4 as stated: for every call, the cursor grows by each batch's size,
\* batch k is written to [cursor, cursor + batch_size), the ranges are
\* increasing and disjoint in batch order, and after the last batch the cursor
\* is len(dataset).
C4_CursorAndRanges ==
    /\ Len(writes) = i
    /\ step = Offset(i + 1)
    /\ \A k \in 1 .. Len(writes) :
          /\ writes[k].cursor = Offset(k)
          /\ writes[k].size >= 1
          /\ writes[k].rows = writes[k].cursor .. (writes[k].cursor + writes[k].size - 1)
          /\ k > 1 => writes[k].cursor > writes[k - 1].cursor
          /\ \A j \in 1 .. (k - 1) :
                \A r \in writes[j].rows : \A q \in writes[k].rows : r < q
    /\ fpc = "returned" => step = dataset_len

\* C4 (amended): for every call, the cursor grows by each batch's size and
\* batch k is written to the rows of [cursor, cursor + batch_size) that lie
\* below len(dataset), so the written ranges are increasing and disjoint in
\* batch order; on return the cursor is the sum of the batch sizes.  When the
\* sizes sum to len(dataset) and every batch has at most max_len columns, the
\* call does not raise, every batch is written to the whole of
\* [cursor, cursor + batch_size), and the final cursor is len(dataset).
C4_CursorAndClippedRanges ==
    /\ Len(writes) = i
    /\ step = Offset(i + 1)
    /\ \A k \in 1 .. Len(writes) :
          /\ writes[k].cursor = Offset(k)
          /\ writes[k].size = SizeOf(k) /\ writes[k].size >= 1
          /\ writes[k].rows =
                { r \in 0 .. (dataset_len - 1) :
                    writes[k].cursor <= r /\ r < writes[k].cursor + writes[k].size }
          /\ k > 1 => writes[k].cursor = writes[k - 1].cursor + writes[k - 1].size
          /\ k > 1 => writes[k].cursor > writes[k - 1].cursor
          /\ \A j \in 1 .. (k - 1) :
                \A r \in writes[j].rows : \A q \in writes[k].rows : r < q
    /\ fpc = "returned" => step = SumSizes(start_or_end_logits)
    /\ (ColsFit /\ SizesSumToN) =>
          /\ fpc # "raised"
          /\ \A k \in 1 .. Len(writes) :
                writes[k].rows = writes[k].cursor .. (writes[k].cursor + writes[k].size - 1)
          /\ fpc = "returned" => step = dataset_len

\* C4 witness: a returned call of three batches whose sizes sum to
\* len(dataset), the last smaller than the first, the middle one written at a
\* cursor above 0.
C4_Witness ==
    /\ fpc = "returned"
    /\ ColsFit /\ SizesSumToN
    /\ Len(writes) = 3
    /\ writes[3].size < writes[1].size
    /\ writes[2].cursor > 0
    /\ writes[2].rows = writes[2].cursor .. (writes[2].cursor + writes[2].size - 1)
    /\ step = dataset_len

\* C5: when the batch sizes sum to N and every batch has at most max_len
\* columns, the result is N rows of max_len columns, row r of batch k holds
\* that example's logits in its first ColsOf(k) columns and -100 after them.
C5_RowsPadded ==
    (fpc = "returned" /\ ColsFit /\ SizesSumToN)
    => /\ Len(logits_concat) = dataset_len
       /\ \A k \in 1 .. Len(start_or_end_logits) : \A j \in 1 .. SizeOf(k) :
             LET row == logits_concat[Offset(k) + j]
             IN  /\ Len(row) = max_len
                 /\ \A c \in 1 .. max_len :
                       row[c] = IF c <= ColsOf(k) THEN Logit(k, j, c) ELSE PadValue

\* C5 witness: batches of 2, 2 and 1 rows for 5 examples; the middle batch
\* fills max_len columns of rows 2 and 3, the single-row last batch is
\* shorter than max_len, so the last row is its logits and then padding.
C5_Witness ==
    /\ fpc = "returned"
    /\ dataset_len = 5
    /\ Len(start_or_end_logits) = 3
    /\ SizeOf(1) = 2 /\ SizeOf(2) = 2 /\ SizeOf(3) = 1
    /\ ColsOf(2) = max_len /\ ColsOf(3) < max_len
    /\ logits_concat[4][max_len] = Logit(2, 2, max_len)
    /\ logits_concat[5][1] = Logit(3, 1, 1)
    /\ logits_concat[5][max_len] = PadValue
\* ----------------------------------------------------------- claims C8, C9
Examples == 1 .. Len(batch0.input_ids)
\* the first separator index (0-based) of example k as the loader built it
Sep0(k) == SetMin(SepIdx(batch0.input_ids[k]))
\* the 0-based positions of example k whose id differs from the loader's
Changed(k) ==
    { p \in 0 .. (Len(batch0.input_ids[k]) - 1) :
        batch.input_ids[k][p + 1] # batch0.input_ids[k][p + 1] }
\* example k got the mask token at exactly one position p, 1 <= p < s
MaskedOnce(k) ==
    \E p \in 1 .. (Sep0(k) - 1) :
        /\ Changed(k) = {p}
        /\ batch.input_ids[k][p + 1] = "MASK"
\* custom_to_mask ran in the call that has ended
MaskCalled == tpc \in {"returned", "raised"} /\ mask_hit
\* the loop reaches example k: no example up to k has a separator index <= 1
Reached(k) == \A j \in 1 .. k : Sep0(j) >= 2

\* C8 as stated: every example whose first separator index s is >= 2 gets the
\* mask token at exactly one position p with 1 <= p < s, and nothing else of
\* the batch changes.
C8_EveryLongExampleMasked ==
    MaskCalled =>
        /\ \A k \in Examples : Sep0(k) >= 2 => MaskedOnce(k)
        /\ batch.attention_mask = batch0.attention_mask

\* C8 (amended): every example the loop reaches (all of them when each has
\* s >= 2, else those before the first example with s <= 1) gets the mask token
\* at exactly one position p with 1 <= p < s; every other position, every
\* example from the first short one on and every other field are unchanged.
C8_ReachedExamplesMasked ==
    /\ MaskCalled =>
        /\ \A k \in Examples : IF Reached(k) THEN MaskedOnce(k) ELSE Changed(k) = {}
        /\ batch.attention_mask = batch0.attention_mask
    /\ (tpc \in {"returned", "raised"} /\ ~mask_hit) => batch = batch0

\* C8 witness: a batch of two maskable examples, masked at different positions.
C8_Witness ==
    /\ tpc = "returned" /\ mask_hit
    /\ Len(batch0.input_ids) = 2
    /\ Changed(1) # Changed(2)
    /\ MaskedOnce(1) /\ MaskedOnce(2)
    /\ Sep0(1) >= 3

\* C9: when custom_to_mask runs on a batch with an example whose first
\* separator index is <= 1, the call ends raised (it neither returns nor stays
\* in the while loop), training_per_step ends raised with no forward pass, no
\* backward pass and no optimizer step, and the examples before the first short
\* one are already masked in the batch; a call raises in no other case.
C9_ShortQuestionRaises ==
    /\ (MaskCalled /\ \E k \in Examples : Sep0(k) <= 1) =>
          /\ tpc = "raised"
          /\ \A n \in 1 .. Len(ops) : ops[n].op = "train"
          /\ model.weights = 0
          /\ loss_out = 0
          /\ \A k \in Examples : Reached(k) => MaskedOnce(k)
    /\ tpc = "raised" => (mask_hit /\ \E k \in Examples : Sep0(k) <= 1)

\* C9 witness: the second example has its separator at index 0; the call
\* raised after masking the first.
C9_Witness ==
    /\ tpc = "raised"
    /\ Len(batch0.input_ids) = 2
    /\ Sep0(1) >= 2 /\ Sep0(2) = 0
    /\ MaskedOnce(1)
    /\ Changed(2) = {}

\* ------------------------------------------------- claims C1, C2, C6, C7, C10
FullKeys == { "loss", "learning_rate", "exact_match", "f1_score", "global_steps" }
\* this step is a pass of the loop body that ran the validation
Validated == hist'.validated = hist.validated + 1

\* C1: at a validation the best F1 is overwritten iff the new F1 is strictly
\* greater than the best (an equal F1 leaves it), the best Exact-Match is
\* written in exactly those steps, and no other step writes either.
C1_BestUpdatedIffStrictlyGreater ==
    [][ /\ Validated =>
              /\ hist'.last.f1_written <=> (wandb'.f1_score > prev_f1)
              /\ hist'.last.em_written <=> hist'.last.f1_written
              /\ IF wandb'.f1_score > prev_f1
                 THEN prev_f1' = wandb'.f1_score /\ prev_em' = wandb'.exact_match
                 ELSE prev_f1' = prev_f1 /\ prev_em' = prev_em
        /\ ~Validated =>
              /\ prev_f1' = prev_f1 /\ prev_em' = prev_em
              /\ hist'.logged # hist.logged =>
                    ~hist'.last.f1_written /\ ~hist'.last.em_written
      ]_vars

\* C1 witness: a validation whose F1 equals the best, which was left alone.
C1_Witness ==
    /\ hist.last.validated /\ ~hist.last.f1_written
    /\ DOMAIN wandb = FullKeys
    /\ wandb.f1_score = prev_f1
    /\ prev_f1 > 0
    /\ wandb.exact_match # prev_em

\* C2 as stated: neither the best F1 nor the best Exact-Match is ever lower
\* after a step than before it.
C2_BothNonDecreasing ==
    [][ prev_f1' >= prev_f1 /\ prev_em' >= prev_em ]_vars

\* C2 (amended): from best F1 = 0 and best EM = 0, the best F1 never
\* decreases; the best Exact-Match changes only in a step that strictly raises
\* the best F1, and can then be lower than before.
C2_F1NonDecreasingEmFollows ==
    /\ prev_f1 = 0 /\ prev_em = 0
    /\ [][ /\ prev_f1' >= prev_f1
           /\ prev_em' # prev_em => prev_f1' > prev_f1 ]_vars

\* C2 witness: a second or later validation that raised the best F1 and left
\* a best Exact-Match below it.
C2_Witness ==
    /\ hist.validated >= 2
    /\ hist.last.f1_written
    /\ hist.best_weights >= 2
    /\ prev_em < prev_f1
    /\ prev_em = 0

\* C6: each finished training step is followed by exactly one emission (it
\* is missing only while the loop stands between the step and its emission);
\* global_steps counts across epochs; the validation runs after a step iff
\* global_steps is a multiple of logging_steps, then the full metrics are
\* emitted and the loss meter reset; every other step emits only the counter,
\* with no validation, no checkpoint write and no reset.
C6_OneStepOneEmission ==
    LET after == IF pc = "log" THEN 1 ELSE 0
        ls == args.logging_steps
    IN  /\ global_steps = epoch * args.n_batches + batch_idx + after
        /\ hist.trained = global_steps
        /\ hist.logged = global_steps - after
        /\ hist.validated = hist.logged \div ls
        /\ hist.resets = hist.validated
        /\ (train_loss.count > 0) <=> (global_steps > ls * hist.validated)
        /\ hist.logged > 0 =>
              /\ wandb.global_steps = hist.logged
              /\ IF hist.logged % ls = 0
                 THEN /\ hist.last.validated /\ hist.last.reset
                      /\ DOMAIN wandb = FullKeys
                      /\ wandb.loss.count > 0
                 ELSE /\ hist.last = NoEvents
                      /\ DOMAIN wandb = { "global_steps" }
        /\ hist.logged = 0 => wandb = <<>> /\ hist.last = NoEvents

\* C6 witness: with tokenizer_name None the first training step finished, the
\* validation that was due raised before model.eval(), and the run ended with
\* nothing emitted and the loss meter not reset.
C6_Witness ==
    /\ pc = "val_raised"
    /\ args.tokenizer_name = None /\ ~args.do_predict
    /\ hist.trained = 1 /\ global_steps = 1
    /\ hist.logged = 0 /\ wandb = <<>>
    /\ train_loss.count > 0
    /\ model.training

\* the path the claim names for the run's checkpoint
NamedPath == IF args.dataset_name = "only_korquad" THEN "koquard_pretrained_model.pt"
             ELSE "run_name.pt"

\* C7 as stated: after a validation a checkpoint exists at the named path iff
\* best F1 > 0, and it is the model that produced the best F1.
C7_CheckpointIffBest ==
    hist.validated >= 1 =>
        /\ (disk[NamedPath] # Absent) <=> (prev_f1 > 0)
        /\ prev_f1 > 0 => disk[NamedPath] = [ by |-> "run", weights |-> hist.best_weights ]

\* C7 (amended): the model is saved in exactly the validation steps that
\* update the best F1; a checkpoint written by this run is at the named path
\* iff best F1 > 0 and is then the model that produced the best F1; while best
\* F1 = 0 the path holds what it held before the run (nothing, or the file of
\* an earlier run), and the other path is never written.
C7_RunCheckpointIffBest ==
    /\ hist.last.saved <=> hist.last.f1_written
    /\ (disk[NamedPath].by = "run") <=> (prev_f1 > 0)
    /\ prev_f1 > 0 => disk[NamedPath] = [ by |-> "run", weights |-> hist.best_weights ]
    /\ prev_f1 = 0 => disk[NamedPath] \in { Absent, Earlier }
    /\ \A p \in Paths \ { NamedPath } : disk[p] \in { Absent, Earlier }
    /\ (hist.last.saved /\ pc \in { "train", "epoch_end", "done" }) =>
          disk[NamedPath].weights = model.weights

\* C7 witness: a validation set the best F1 and saved the model, training has
\* gone on since, and the checkpoint is still the model of that validation.
C7_Witness ==
    /\ prev_f1 > 0
    /\ disk[NamedPath].by = "run"
    /\ disk[NamedPath].weights >= 1
    /\ model.weights > disk[NamedPath].weights
    /\ args.dataset_name = "only_korquad"

\* the last call on the model was training_per_step (else validating_per_steps)
LastCallTrained ==
    \/ pc \in { "log", "raised" }
    \/ pc # "val_raised" /\ ~hist.last.validated

\* C10: every forward and backward pass of a training step runs in training
\* mode, also right after a validation, which leaves the model in evaluation
\* mode; every forward pass of a validation runs in evaluation mode; a training
\* step does backward, optimizer step, scaler update, gradient reset in that
\* order.
C10_ModesAndOrder ==
    /\ \A n \in 1 .. Len(ops) :
          ops[n].op \in { "forward", "backward" } => ops[n].training = LastCallTrained
    /\ pc = "log" =>
          /\ Len(ops) >= 5
          /\ LET n == Len(ops)
             IN  << ops[n - 4].op, ops[n - 3].op, ops[n - 2].op, ops[n - 1].op, ops[n].op >>
                   = << "forward", "backward", "optimizer_step", "scaler_update", "zero_grad" >>
          /\ model.training
    /\ (pc \in { "train", "epoch_end" } /\ hist.last.validated) =>
          /\ ~model.training
          /\ Cardinality({ n \in 1 .. Len(ops) : ops[n].op = "forward" }) = ValBatches
          /\ \A n \in 1 .. Len(ops) : ops[n].op \in { "eval", "forward" }
    /\ pc = "val_raised" =>
          IF args.tokenizer_name = None
          THEN ops = <<>> /\ model.training
          ELSE /\ ~model.training
               /\ Cardinality({ n \in 1 .. Len(ops) : ops[n].op = "forward" }) = ValBatches

\* C10 witness: the training step right after a validation, run in training mode.
C10_Witness ==
    /\ pc = "log"
    /\ hist.last.validated
    /\ hist.validated >= 1
    /\ ops[2] = [ op |-> "forward", training |-> TRUE ]
====
